---- MODULE Spec2Model ----
(***************************************************************************)
(* LateralPlanner (selfdrive/controls/lib/lateral_planner.py): the         *)
(* lane-change state machine, the acceptance of the model forecast, the    *)
(* validity accounting of the MPC solve, and publish.                      *)
(*                                                                         *)
(* Units.  Every duration is a whole number of model periods DT_MDL.       *)
(* DT_MDL is imported from common.realtime; its value is kept symbolic as  *)
(* 1/TicksPerSecond seconds.  The lane-line blend factor                   *)
(* lane_change_ll_prob is counted in the same unit: 1.0 is LL_ONE, the     *)
(* fade-out step 2*DT_MDL is 2 and the fade-in step DT_MDL is 1.           *)
(* lane_change_prob is counted in hundredths, speeds in m/s.               *)
(* Arithmetic is exact: floating point rounding is not modelled.           *)
(*                                                                         *)
(* The clock sec_since_boot() is read in whole seconds.  The tuning values *)
(* read through ntune_get do not change while the planner runs, so the     *)
(* re-initialisation of lines 118-122 does not occur.  A forecast is the   *)
(* length of its position lists, the length of its orientation lists and   *)
(* an identity standing for its contents; the MPC solution is its cost and *)
(* the curvature update reads from it, a number or NaN.                    *)
(*                                                                         *)
(* Steering angles are whole degrees and curvatures are counted in the     *)
(* unit that makes math.radians and math.degrees the identity on numbers;  *)
(* the steer ratio VM.sR and the curvature factor stay in the formulas.    *)
(* The inputs are chosen so that every division is exact.                  *)
(***************************************************************************)
EXTENDS Integers, Sequences, FiniteSets, TLC

\* ---------------------------------------------------------------- bounds
\* number of model periods in one second (DT_MDL = 1/TicksPerSecond s)
TicksPerSecond == 3
\* kegman_kans.conf['ALCtimer'], in model periods
ALCtimer == 1
\* kegman_kans.conf['ALCminSpeed'], in m/s
ALCminSpeed == 7
\* longest run of consecutive active ticks with a blinker on that is explored
MaxPreTimer == 4
\* latest clock reading explored, in seconds
MaxClock == 12
\* longest run of consecutive invalid solves explored
MaxInvalid == 3

\* ------------------------------------------------------------- constants
\* one model period, the unit of time
DT_MDL == 1
LANE_CHANGE_TIME_MAX == 10

\* 1.0 in blend-factor units
LL_ONE == TicksPerSecond * DT_MDL
\* the literal 10.0 (seconds) of update, in model periods
LaneChangeTimeMaxTicks == LANE_CHANGE_TIME_MAX * TicksPerSecond * DT_MDL

\* value of pre_lane_change_timer while the attribute does not exist:
\* __init__ never assigns it
NoAttr == -1

\* length of a full forecast (imported from lane_planner)
TRAJECTORY_SIZE == 33
\* the literal 20000. of update: the cost above which a solve is invalid
COST_LIMIT == 20000
\* the literal 5.0 of update: seconds between two warnings
CLOUDLOG_PERIOD == 5
\* float('nan') as a curvature
NaN == -999
\* the forecasts the model can send: full or one short, in each list group
Forecasts ==
  [ position_len : {TRAJECTORY_SIZE - 1, TRAJECTORY_SIZE},
    orientation_len : {TRAJECTORY_SIZE - 1, TRAJECTORY_SIZE},
    id : {1, 2} ]
\* path_xyz, t_idxs and plan_yaw as __init__ builds them (no forecast)
NoForecast == 0

LaneChangeState == {"off", "preLaneChange", "laneChangeStarting", "laneChangeFinishing"}
LaneChangeDirection == {"none", "left", "right"}
Desire == {"none", "laneChangeLeft", "laneChangeRight"}

VARIABLES
  self,     \* the LateralPlanner object: a record of its attributes
  raised,   \* TRUE once update has raised (the exception ends the process)
  now,      \* the latest reading of sec_since_boot()
  cloudlog, \* the clock readings at which cloudlog.warning was called
  pm        \* the last lateralPlan message sent, << >> before the first

vars == << self, raised, now, cloudlog, pm >>

\* one snapshot of sm as update reads it
Inputs ==
  [ active : BOOLEAN,
    leftBlinker : BOOLEAN,
    rightBlinker : BOOLEAN,
    steeringTorque : {-1, 0, 1},
    steeringPressed : BOOLEAN,
    leftBlindspot : BOOLEAN,
    rightBlindspot : BOOLEAN,
    vEgo : {ALCminSpeed - 1, ALCminSpeed},
    lane_change_prob : {1, 2},
    md : {[position_len |-> TRAJECTORY_SIZE, orientation_len |-> TRAJECTORY_SIZE,
           id |-> 1]},
    steeringAngle : {-2},
    angleOffset : {0},
    curvature_factor : {1},
    sR : {2},
    cost : {0},
    curvature : {2},
    next_curvature : {1},
    curvature_rate : {0},
    t : {0} ]

\* the readings of a non-decreasing clock that can follow reading last: the
\* same second, the next, and the first one more than CLOUDLOG_PERIOD later
ClockReadings(last) ==
  { t \in {last, last + 1, last + CLOUDLOG_PERIOD + 1} : t <= MaxClock }

\* snapshots of sm and solver results at clock reading t with the
\* controller active and the blinkers off: the forecast and the solve vary
MpcInputs(t) ==
  [ active : {TRUE},
    leftBlinker : {FALSE},
    rightBlinker : {FALSE},
    steeringTorque : {0},
    steeringPressed : {FALSE},
    leftBlindspot : {FALSE},
    rightBlindspot : {FALSE},
    vEgo : {ALCminSpeed},
    lane_change_prob : {1},
    md : Forecasts,
    steeringAngle : {-2, -6},
    angleOffset : {0},
    curvature_factor : {1},
    sR : {2},
    cost : {COST_LIMIT, COST_LIMIT + 5000},
    curvature : {2, NaN},
    next_curvature : {1},
    curvature_rate : {0},
    t : {t} ]

\* snapshots of sm and solver results with the blinkers off and a full
\* forecast: the controller, the steering, the vehicle model and the solution
\* vary; a NaN at the delay is a NaN curvature sample
SteerInputs ==
  { in \in
      [ active : BOOLEAN,
        leftBlinker : {FALSE},
        rightBlinker : {FALSE},
        steeringTorque : {0},
        steeringPressed : {FALSE},
        leftBlindspot : {FALSE},
        rightBlindspot : {FALSE},
        vEgo : {ALCminSpeed},
        lane_change_prob : {1},
        md : {[position_len |-> TRAJECTORY_SIZE, orientation_len |-> TRAJECTORY_SIZE,
               id |-> 1]},
        steeringAngle : {-2, 2, 12},
        angleOffset : {0, 2},
        curvature_factor : {1, 2},
        sR : {1, 2},
        cost : {0},
        curvature : {2, NaN},
        next_curvature : {-4, 4, NaN},
        curvature_rate : {0, 4},
        t : {0} ] :
      in.next_curvature = NaN => in.curvature = NaN }

\* DESIRES with the laneChangeFinishing column all none
DESIRES_StartingOnly(direction, state) ==
  IF state = "laneChangeStarting"
  THEN CASE direction = "left" -> "laneChangeLeft"
         [] direction = "right" -> "laneChangeRight"
         [] OTHER -> "none"
  ELSE "none"

\* DESIRES[direction][state]
DESIRES(direction, state) ==
  IF state \in {"laneChangeStarting", "laneChangeFinishing"}
  THEN CASE direction = "left" -> "laneChangeLeft"
         [] direction = "right" -> "laneChangeRight"
         [] OTHER -> "none"
  ELSE "none"

\* one_blinker = leftBlinker != rightBlinker
OneBlinker(in) == in.leftBlinker # in.rightBlinker

\* below_lane_change_speed = v_ego < self.alc_min_speed
BelowLaneChangeSpeed(in) == in.vEgo < ALCminSpeed

ForcedAbort_ActiveOnly(active, timer) == ~active

\* if not active or self.lane_change_timer > 10.0
ForcedAbort(active, timer) ==
  ~active \/ timer > LaneChangeTimeMaxTicks

BlinkerDirection_LeftOnly(in, direction) ==
  IF in.leftBlinker THEN "left" ELSE direction

\* self.lane_change_direction after the blinker branch of an active tick
BlinkerDirection(in, direction) ==
  IF in.leftBlinker THEN "left"
  ELSE IF in.rightBlinker THEN "right"
  ELSE direction

\* self.pre_lane_change_timer after the blinker branch of an active tick
BlinkerPreTimer(in, pre) ==
  IF in.leftBlinker \/ in.rightBlinker THEN pre + DT_MDL ELSE 0

\* the += of the blinker branch reads an attribute that does not exist
BlinkerRaises(in, pre) ==
  (in.leftBlinker \/ in.rightBlinker) /\ pre = NoAttr

\* the local lane_change_direction: assigned LaneChangeDirection.none at the
\* top of the lane change logic and never assigned again
LocalLaneChangeDirection == "none"

\* torque_applied
TorqueApplied(in, nudge_less, pre) ==
  IF nudge_less /\ pre > ALCtimer
  THEN TRUE
  ELSE IF LocalLaneChangeDirection = "left"
       THEN in.steeringTorque > 0 /\ in.steeringPressed
       ELSE in.steeringTorque < 0 /\ in.steeringPressed

BlindspotDetected_LeftOnly(in, direction) ==
  in.leftBlindspot /\ direction = "left"

\* blindspot_detected
BlindspotDetected(in, direction) ==
  \/ in.leftBlindspot /\ direction = "left"
  \/ in.rightBlindspot /\ direction = "right"

FadeOut_NoFloor(ll) == ll - 2 * DT_MDL

\* max(self.lane_change_ll_prob - 2*DT_MDL, 0.0)
FadeOut(ll) == IF ll - 2 * DT_MDL > 0 THEN ll - 2 * DT_MDL ELSE 0

\* the fade-in at the speed of the fade-out
FadeIn_TwoPeriods(ll) == IF ll + 2 * DT_MDL < LL_ONE THEN ll + 2 * DT_MDL ELSE LL_ONE

\* min(self.lane_change_ll_prob + DT_MDL, 1.0)
FadeIn(ll) == IF ll + DT_MDL < LL_ONE THEN ll + DT_MDL ELSE LL_ONE

\* self.lane_change_ll_prob < 0.01
LLBelow001(ll) == 100 * ll < LL_ONE

\* the end of the fade-in tested at 0.5
LLAbove099_Half(ll) == 2 * ll > LL_ONE

\* self.lane_change_ll_prob > 0.99
LLAbove099(ll) == 100 * ll > 99 * LL_ONE

\* lane_change_prob < 0.02
LaneChangeProbLow(in) == in.lane_change_prob < 2

Transition_AbortOnRelease(state, ll, one_blinker, prev, below, torque, blindspot, prob_low) ==
  IF state = "off" /\ one_blinker /\ ~prev /\ ~below
  THEN [state |-> "preLaneChange", ll |-> LL_ONE]
  ELSE IF state = "preLaneChange"
  THEN IF ~one_blinker \/ below
       THEN [state |-> "off", ll |-> ll]
       ELSE IF torque /\ ~blindspot
       THEN [state |-> "laneChangeStarting", ll |-> ll]
       ELSE [state |-> state, ll |-> ll]
  ELSE IF state = "laneChangeStarting"
  THEN IF ~one_blinker
       THEN [state |-> "off", ll |-> FadeOut(ll)]
       ELSE IF prob_low /\ LLBelow001(FadeOut(ll))
       THEN [state |-> "laneChangeFinishing", ll |-> FadeOut(ll)]
       ELSE [state |-> state, ll |-> FadeOut(ll)]
  ELSE IF state = "laneChangeFinishing"
  THEN IF one_blinker /\ LLAbove099(FadeIn(ll))
       THEN [state |-> "preLaneChange", ll |-> FadeIn(ll)]
       ELSE IF LLAbove099(FadeIn(ll))
       THEN [state |-> "off", ll |-> FadeIn(ll)]
       ELSE [state |-> state, ll |-> FadeIn(ll)]
  ELSE [state |-> state, ll |-> ll]

\* the if/elif chain "State transitions": the new lane_change_state and
\* lane_change_ll_prob
Transition(state, ll, one_blinker, prev, below, torque, blindspot, prob_low) ==
  IF state = "off" /\ one_blinker /\ ~prev /\ ~below
  THEN [state |-> "preLaneChange", ll |-> LL_ONE]
  ELSE IF state = "preLaneChange"
  THEN IF ~one_blinker \/ below
       THEN [state |-> "off", ll |-> ll]
       ELSE IF torque /\ ~blindspot
       THEN [state |-> "laneChangeStarting", ll |-> ll]
       ELSE [state |-> state, ll |-> ll]
  ELSE IF state = "laneChangeStarting"
  THEN IF prob_low /\ LLBelow001(FadeOut(ll))
       THEN [state |-> "laneChangeFinishing", ll |-> FadeOut(ll)]
       ELSE [state |-> state, ll |-> FadeOut(ll)]
  ELSE IF state = "laneChangeFinishing"
  THEN IF one_blinker /\ LLAbove099(FadeIn(ll))
       THEN [state |-> "preLaneChange", ll |-> FadeIn(ll)]
       ELSE IF LLAbove099(FadeIn(ll))
       THEN [state |-> "off", ll |-> FadeIn(ll)]
       ELSE [state |-> state, ll |-> FadeIn(ll)]
  ELSE [state |-> state, ll |-> ll]

TimerUpdate_OffOnly(state, timer) ==
  IF state = "off" THEN 0 ELSE timer + DT_MDL

\* self.lane_change_timer after the state transitions
TimerUpdate(state, timer) ==
  IF state \in {"off", "preLaneChange"} THEN 0 ELSE timer + DT_MDL

\* the forecast has full-length position and orientation lists
ForecastAccepted(md) ==
  md.position_len = TRAJECTORY_SIZE /\ md.orientation_len = TRAJECTORY_SIZE

\* self.path_xyz, self.t_idxs or self.plan_yaw (each given as old) after the
\* forecast md has been looked at
StoredForecast(old, md) == IF ForecastAccepted(md) THEN md.id ELSE old

\* mpc_nans
MpcNans(in) == in.curvature = NaN

\* the validity test without the cost
SolutionInvalid_NansOnly(in) == MpcNans(in)

\* the solve of this tick is invalid
SolutionInvalid(in) == in.cost > COST_LIMIT \/ MpcNans(in)

\* the counter without its reset
SolutionInvalidCnt_NoReset(cnt, in) == IF SolutionInvalid(in) THEN cnt + 1 ELSE cnt

\* self.solution_invalid_cnt after the solve
SolutionInvalidCnt(cnt, in) == IF SolutionInvalid(in) THEN cnt + 1 ELSE 0

\* the last call made on libmpc when update returns
Libmpc(in) == IF MpcNans(in) THEN "init" ELSE "run_mpc"

\* measured_curvature
MeasuredCurvature(in) ==
  -((in.curvature_factor * (in.steeringAngle - in.angleOffset)) \div in.sR)

\* the seed always taken from the solution
CurStateCurvature_FromSolution(in) == in.curvature

\* self.cur_state.curvature when update returns
CurStateCurvature(in) ==
  IF MpcNans(in) THEN MeasuredCurvature(in) ELSE in.curvature

\* the solution commanded whether or not the controller is active
CurvatureDesired_AlwaysSolution(in) == in.next_curvature

\* curvature_desired
CurvatureDesired(in) ==
  IF in.active THEN in.next_curvature ELSE MeasuredCurvature(in)

\* desired_curvature_rate
DesiredCurvatureRate(in) ==
  IF in.active THEN in.curvature_rate ELSE 0

\* self.desired_steering_wheel_angle_deg
DesiredSteeringWheelAngleDeg(in) ==
  IF CurvatureDesired(in) = NaN
  THEN NaN
  ELSE -((CurvatureDesired(in) * in.sR) \div in.curvature_factor) + in.angleOffset

\* self.desired_steering_wheel_angle_rate_deg
DesiredSteeringWheelAngleRateDeg(in) ==
  -((DesiredCurvatureRate(in) * in.sR) \div in.curvature_factor)

\* update calls cloudlog.warning
CloudlogWarning(last_cloudlog_t, in) ==
  MpcNans(in) /\ in.t > last_cloudlog_t + CLOUDLOG_PERIOD

\* the time of the last warning never recorded
LastCloudlogT_Never(last_cloudlog_t, in) == last_cloudlog_t

\* self.last_cloudlog_t when update returns
LastCloudlogT(last_cloudlog_t, in) ==
  IF CloudlogWarning(last_cloudlog_t, in) THEN in.t ELSE last_cloudlog_t

\* plan_solution_valid of publish
PlanSolutionValid(cnt) == cnt < 2

\* update(sm) on planner object s raises AttributeError
Raises(s, in) ==
  /\ ~ForcedAbort(in.active, s.lane_change_timer)
  /\ BlinkerRaises(in, s.pre_lane_change_timer)

\* the planner object after update(sm) on planner object s; when the call
\* raises, the object as the exception leaves it
Step(s, in) ==
  LET abort == ForcedAbort(in.active, s.lane_change_timer)
      dir == IF abort THEN s.lane_change_direction
             ELSE BlinkerDirection(in, s.lane_change_direction)
      pre == IF abort THEN 0
             ELSE BlinkerPreTimer(in, s.pre_lane_change_timer)
      t == IF abort THEN [state |-> "off", ll |-> s.lane_change_ll_prob]
           ELSE Transition(s.lane_change_state, s.lane_change_ll_prob,
                           OneBlinker(in), s.prev_one_blinker,
                           BelowLaneChangeSpeed(in),
                           TorqueApplied(in, s.alc_nudge_less, pre),
                           BlindspotDetected(in, dir),
                           LaneChangeProbLow(in))
  IN IF Raises(s, in)
     THEN [s EXCEPT !.lane_change_direction = dir,
                    !.path_xyz = StoredForecast(s.path_xyz, in.md),
                    !.t_idxs = StoredForecast(s.t_idxs, in.md),
                    !.plan_yaw = StoredForecast(s.plan_yaw, in.md)]
     ELSE [ lane_change_state |-> t.state,
            lane_change_direction |-> dir,
            lane_change_timer |-> TimerUpdate(t.state, s.lane_change_timer),
            lane_change_ll_prob |-> t.ll,
            prev_one_blinker |-> OneBlinker(in),
            pre_lane_change_timer |-> pre,
            desire |-> DESIRES(dir, t.state),
            alc_nudge_less |-> s.alc_nudge_less,
            path_xyz |-> StoredForecast(s.path_xyz, in.md),
            t_idxs |-> StoredForecast(s.t_idxs, in.md),
            plan_yaw |-> StoredForecast(s.plan_yaw, in.md),
            libmpc |-> Libmpc(in),
            cur_state_curvature |-> CurStateCurvature(in),
            last_cloudlog_t |-> LastCloudlogT(s.last_cloudlog_t, in),
            solution_invalid_cnt |-> SolutionInvalidCnt(s.solution_invalid_cnt, in),
            desired_steering_wheel_angle_deg |-> DesiredSteeringWheelAngleDeg(in),
            desired_steering_wheel_angle_rate_deg |-> DesiredSteeringWheelAngleRateDeg(in),
            lane_change_enabled |-> s.lane_change_enabled ]

\* LateralPlanner.__init__
Init ==
  /\ \E nudge_less \in BOOLEAN :
       self = [ lane_change_state |-> "off",
                lane_change_direction |-> "none",
                lane_change_timer |-> 0,
                lane_change_ll_prob |-> LL_ONE,
                prev_one_blinker |-> FALSE,
                pre_lane_change_timer |-> NoAttr,
                desire |-> "none",
                alc_nudge_less |-> nudge_less,
                path_xyz |-> NoForecast,
                t_idxs |-> NoForecast,
                plan_yaw |-> NoForecast,
                libmpc |-> "init",
                cur_state_curvature |-> 0,
                last_cloudlog_t |-> 0,
                solution_invalid_cnt |-> 0,
                desired_steering_wheel_angle_deg |-> NoAttr,
                desired_steering_wheel_angle_rate_deg |-> NoAttr,
                lane_change_enabled |-> TRUE ]
  /\ raised = FALSE
  /\ now = 0
  /\ cloudlog = << >>
  /\ pm = << >>

\* LateralPlanner.__init__ with the parameter LaneChangeEnabled not b'1'
SwitchOffInit ==
  /\ \E nudge_less \in BOOLEAN :
       self = [ lane_change_state |-> "off",
                lane_change_direction |-> "none",
                lane_change_timer |-> 0,
                lane_change_ll_prob |-> LL_ONE,
                prev_one_blinker |-> FALSE,
                pre_lane_change_timer |-> NoAttr,
                desire |-> "none",
                alc_nudge_less |-> nudge_less,
                path_xyz |-> NoForecast,
                t_idxs |-> NoForecast,
                plan_yaw |-> NoForecast,
                libmpc |-> "init",
                cur_state_curvature |-> 0,
                last_cloudlog_t |-> 0,
                solution_invalid_cnt |-> 0,
                desired_steering_wheel_angle_deg |-> NoAttr,
                desired_steering_wheel_angle_rate_deg |-> NoAttr,
                lane_change_enabled |-> FALSE ]
  /\ raised = FALSE
  /\ now = 0
  /\ cloudlog = << >>
  /\ pm = << >>

\* LateralPlanner.update(sm): one tick
update(in) ==
  /\ ~raised
  /\ in.t >= now
  /\ SolutionInvalid(in) => self.solution_invalid_cnt < MaxInvalid
  /\ (~ForcedAbort(in.active, self.lane_change_timer)
        /\ (in.leftBlinker \/ in.rightBlinker))
       => self.pre_lane_change_timer < MaxPreTimer
  /\ self' = Step(self, in)
  /\ raised' = Raises(self, in)
  /\ now' = in.t
  /\ cloudlog' = IF ~Raises(self, in) /\ CloudlogWarning(self.last_cloudlog_t, in)
                 THEN Append(cloudlog, in.t)
                 ELSE cloudlog
  /\ pm' = pm

\* LateralPlanner.publish(sm, pm): the validity flag and the lane-change
\* fields of lateralPlan
publish ==
  /\ ~raised
  /\ pm' = << [ mpcSolutionValid |-> PlanSolutionValid(self.solution_invalid_cnt),
                desire |-> self.desire,
                laneChangeState |-> self.lane_change_state,
                laneChangeDirection |-> self.lane_change_direction ] >>
  /\ UNCHANGED << self, raised, now, cloudlog >>

Next == \E in \in Inputs : update(in)

Spec == Init /\ [][Next]_vars

\* ticks whose forecast, solve and clock vary, each followed or not by publish
MpcNext ==
  \/ \E t \in ClockReadings(now) : \E in \in MpcInputs(t) : update(in)
  \/ publish

MpcSpec == Init /\ [][MpcNext]_vars

\* ticks whose steering, vehicle model and solution vary
SteerNext == \E in \in SteerInputs : update(in)

SteerSpec == Init /\ [][SteerNext]_vars

\* the ticks of Spec on a planner constructed with LaneChangeEnabled off
SwitchOffSpec == SwitchOffInit /\ [][Next]_vars

TypeOK ==
  /\ self.lane_change_state \in LaneChangeState
  /\ self.lane_change_direction \in LaneChangeDirection
  /\ self.lane_change_timer \in 0..(LaneChangeTimeMaxTicks + 1)
  /\ self.lane_change_ll_prob \in 0..LL_ONE
  /\ self.prev_one_blinker \in BOOLEAN
  /\ self.pre_lane_change_timer \in {NoAttr} \cup 0..MaxPreTimer
  /\ self.desire \in Desire
  /\ self.alc_nudge_less \in BOOLEAN
  /\ self.path_xyz \in {NoForecast, 1, 2}
  /\ self.t_idxs \in {NoForecast, 1, 2}
  /\ self.plan_yaw \in {NoForecast, 1, 2}
  /\ self.libmpc \in {"init", "run_mpc"}
  /\ self.cur_state_curvature \in -24..24
  /\ self.desired_steering_wheel_angle_deg \in {NoAttr, NaN} \cup -10..12
  /\ self.desired_steering_wheel_angle_rate_deg \in {NoAttr} \cup -8..8
  /\ self.lane_change_enabled \in BOOLEAN
  /\ self.last_cloudlog_t \in 0..MaxClock
  /\ self.solution_invalid_cnt \in 0..MaxInvalid
  /\ raised \in BOOLEAN
  /\ now \in 0..MaxClock
  /\ cloudlog \in Seq(0..MaxClock)
  /\ Len(pm) <= 1

\* ------------------------------------------------------------------ claims

\* C1: blind-spot gate.  On a tick that starts in preLaneChange with the
\* blind-spot flag set on the side of the lane-change direction the tick
\* works with (leftBlindspot and direction left, or rightBlindspot and
\* direction right), update never moves to laneChangeStarting, whatever the
\* torque, the nudge-less setting and the pre-change timer; and the state
\* stays preLaneChange when moreover the controller is active, exactly one
\* blinker is on and the speed is at least the minimum.
C1_BlindspotGate ==
  ~raised =>
    \A in \in Inputs : \A r \in {Step(self, in)} :
      ( /\ self.lane_change_state = "preLaneChange"
        /\ \/ in.leftBlindspot /\ r.lane_change_direction = "left"
           \/ in.rightBlindspot /\ r.lane_change_direction = "right" )
      => /\ r.lane_change_state # "laneChangeStarting"
         /\ ( in.active /\ in.leftBlinker # in.rightBlinker
              /\ in.vEgo >= ALCminSpeed )
            => r.lane_change_state = "preLaneChange"

\* C1 witness: a preLaneChange state to the left with the nudge-less timer
\* elapsed, which an occupied left blind spot keeps in preLaneChange and a
\* clear one lets start.
C1_Witness ==
  /\ ~raised
  /\ self.lane_change_state = "preLaneChange"
  /\ self.lane_change_direction = "left"
  /\ self.alc_nudge_less
  /\ \E in \in Inputs :
       /\ in.active /\ in.leftBlinker /\ ~in.rightBlinker
       /\ in.leftBlindspot /\ in.vEgo >= ALCminSpeed
       /\ self.pre_lane_change_timer + DT_MDL > ALCtimer
       /\ Step(self, in).lane_change_state = "preLaneChange"
       /\ Step(self, [in EXCEPT !.leftBlindspot = FALSE]).lane_change_state
            = "laneChangeStarting"

\* C2: forced abort.  A tick with the controller inactive, or with the
\* lane-change timer above 10 s at its start, ends in state off with the
\* pre-change timer 0, the lane-change timer 0 and desire none, whatever the
\* other inputs; and the lane-change timer never exceeds 10 s plus one tick.
C2_ForcedAbort ==
  /\ self.lane_change_timer <= LANE_CHANGE_TIME_MAX * TicksPerSecond + 1
  /\ ~raised =>
       \A in \in Inputs : \A r \in {Step(self, in)} :
         (~in.active \/ self.lane_change_timer > LANE_CHANGE_TIME_MAX * TicksPerSecond)
         => /\ ~Raises(self, in)
            /\ r.lane_change_state = "off"
            /\ r.pre_lane_change_timer = 0
            /\ r.lane_change_timer = 0
            /\ r.desire = "none"

\* C2 witness: a lane change that has lasted more than 10 s, which the next
\* tick aborts although the controller is active.
C2_Witness ==
  /\ ~raised
  /\ self.lane_change_state = "laneChangeStarting"
  /\ self.lane_change_timer > LANE_CHANGE_TIME_MAX * TicksPerSecond
  /\ \E in \in Inputs :
       /\ in.active
       /\ Step(self, in).lane_change_state = "off"
       /\ Step(self, in).lane_change_timer = 0

\* C3: entry on a rising blinker edge only.  A tick changes the state from
\* off to preLaneChange if and only if the controller is active, exactly one
\* blinker is on, prev_one_blinker is false and the speed is at least the
\* minimum lane-change speed.
C3_RisingEdgeEntry ==
  ~raised =>
    \A in \in Inputs : \A r \in {Step(self, in)} :
      ( self.lane_change_state = "off" /\ r.lane_change_state = "preLaneChange" )
      <=> ( /\ self.lane_change_state = "off"
            /\ in.active
            /\ in.leftBlinker # in.rightBlinker
            /\ ~self.prev_one_blinker
            /\ in.vEgo >= ALCminSpeed )

\* C4: torque confirmation in the commanded direction.  When the nudge-less
\* path is not taken, a tick moves preLaneChange to laneChangeStarting only
\* with steeringPressed and a torque pointing in the lane-change direction
\* (positive for left, negative for right).
C4_TorqueInCommandedDirection ==
  ~raised =>
    \A in \in Inputs : \A r \in {Step(self, in)} :
      ( /\ self.lane_change_state = "preLaneChange"
        /\ r.lane_change_state = "laneChangeStarting"
        /\ ~(self.alc_nudge_less /\ r.pre_lane_change_timer > ALCtimer) )
      => /\ in.steeringPressed
         /\ \/ r.lane_change_direction = "left" /\ in.steeringTorque > 0
            \/ r.lane_change_direction = "right" /\ in.steeringTorque < 0

\* the inputs of scenario A: controller active, left blinker held, 20 m/s,
\* no blind spot, steering pressed with leftward torque
ScenarioAInputs ==
  { [ active |-> TRUE, leftBlinker |-> TRUE, rightBlinker |-> FALSE,
      steeringTorque |-> 1, steeringPressed |-> TRUE,
      leftBlindspot |-> FALSE, rightBlindspot |-> FALSE,
      vEgo |-> 20, lane_change_prob |-> p,
      md |-> [position_len |-> TRAJECTORY_SIZE, orientation_len |-> TRAJECTORY_SIZE,
              id |-> 1],
      steeringAngle |-> -2, angleOffset |-> 0, curvature_factor |-> 1, sR |-> 2,
      cost |-> 0, curvature |-> 2, next_curvature |-> 1, curvature_rate |-> 0,
      t |-> 0 ]
    : p \in {1, 2} }

\* the ticks of 1.5 s
ScenarioAWindow == (3 * TicksPerSecond) \div 2

RECURSIVE ReachesWithin(_, _, _, _)
\* planner object s is in state target now or after at most n ticks with
\* input in
ReachesWithin(s, in, target, n) ==
  \/ s.lane_change_state = target
  \/ /\ n > 0
     /\ \E r \in {Step(s, in)} : ReachesWithin(r, in, target, n - 1)

\* C5: scenario A.  From state off after a tick without blinker, controller
\* active and nudge-less mode disabled, the first tick with the scenario's
\* inputs ends in preLaneChange and laneChangeStarting follows within the
\* 1.5 s window.
C5_ScenarioA ==
  ( /\ ~raised
    /\ self.lane_change_state = "off"
    /\ ~self.prev_one_blinker
    /\ self.pre_lane_change_timer # NoAttr
    /\ ~self.alc_nudge_less )
  => \A in \in ScenarioAInputs : \A r \in {Step(self, in)} :
       /\ r.lane_change_state = "preLaneChange"
       /\ ReachesWithin(r, in, "laneChangeStarting", ScenarioAWindow - 1)

RECURSIVE FinishesThenOff(_, _, _)
\* from laneChangeFinishing, ticks with input in stay in laneChangeFinishing
\* until the state is off, within n ticks
FinishesThenOff(s, in, n) ==
  \/ s.lane_change_state = "off"
  \/ /\ s.lane_change_state = "laneChangeFinishing"
     /\ n > 0
     /\ \E r \in {Step(s, in)} : FinishesThenOff(r, in, n - 1)

RECURSIVE CompletesManeuver(_, _, _)
\* from laneChangeStarting, ticks with input in stay in laneChangeStarting
\* until laneChangeFinishing, within n ticks, and then go on to off with
\* the blinkers released
CompletesManeuver(s, in, n) ==
  IF s.lane_change_state = "laneChangeFinishing"
  THEN FinishesThenOff(s, [in EXCEPT !.leftBlinker = FALSE, !.rightBlinker = FALSE],
                       TicksPerSecond + 1)
  ELSE /\ s.lane_change_state = "laneChangeStarting"
       /\ n > 0
       /\ \E r \in {Step(s, in)} : CompletesManeuver(r, in, n - 1)

\* C6: scenario C.  A tick that starts in laneChangeStarting with the
\* controller active and the lane-change timer at most 10 s ends in
\* laneChangeStarting or laneChangeFinishing whatever the blinkers are, and
\* in laneChangeFinishing exactly when the lane-change probability is below
\* 0.02 and the blend factor (as faded by the tick) is below 0.01; and with
\* the lane-change probability held below 0.02 the maneuver reaches
\* laneChangeFinishing within 1 s of ticks and then, blinkers released, off.
C6_NoAbortOnBlinkerRelease ==
  ( /\ ~raised
    /\ self.lane_change_state = "laneChangeStarting"
    /\ self.lane_change_timer <= LANE_CHANGE_TIME_MAX * TicksPerSecond )
  => \A in \in Inputs : \A r \in {Step(self, in)} :
       in.active =>
         /\ r.lane_change_state \in {"laneChangeStarting", "laneChangeFinishing"}
         /\ r.lane_change_state = "laneChangeFinishing"
              <=> (in.lane_change_prob < 2 /\ 100 * r.lane_change_ll_prob < TicksPerSecond)
         /\ in.lane_change_prob < 2 => CompletesManeuver(self, in, TicksPerSecond)

\* C6 witness: laneChangeFinishing just entered (blend factor 0) on a tick
\* on which no blinker was on.
C6_Witness ==
  /\ ~raised
  /\ self.lane_change_state = "laneChangeFinishing"
  /\ self.lane_change_ll_prob = 0
  /\ ~self.prev_one_blinker
  /\ self.desire # "none"

\* C7: direction held for the whole maneuver.  Across a tick with the state
\* not off before and not off after, lane_change_direction is unchanged.
C7_DirectionHeld ==
  [][ ( self.lane_change_state # "off" /\ self'.lane_change_state # "off" )
      => self'.lane_change_direction = self.lane_change_direction ]_vars

\* C8: in every reachable state, a lane-change state other than off comes
\* with a direction other than none.
C8_DirectionSetUnlessOff ==
  self.lane_change_state # "off" => self.lane_change_direction # "none"

\* C8 witness: a lane change to the right in progress.
C8_Witness ==
  /\ self.lane_change_state = "laneChangeFinishing"
  /\ self.lane_change_direction = "right"

\* C9: the blend factor stays in [0,1]; it does not increase across a tick
\* that starts in laneChangeStarting and does not decrease across a tick
\* that starts in laneChangeFinishing.
C9_BlendFactorMonotone ==
  [][ /\ self.lane_change_ll_prob \in 0..TicksPerSecond
      /\ self'.lane_change_ll_prob \in 0..TicksPerSecond
      /\ self.lane_change_state = "laneChangeStarting"
           => self'.lane_change_ll_prob <= self.lane_change_ll_prob
      /\ self.lane_change_state = "laneChangeFinishing"
           => self'.lane_change_ll_prob >= self.lane_change_ll_prob ]_vars

\* C9 witness: laneChangeFinishing in the middle of the fade-in.
C9_Witness ==
  /\ self.lane_change_state = "laneChangeFinishing"
  /\ self.lane_change_ll_prob > 0
  /\ self.lane_change_ll_prob < TicksPerSecond

\* C10: after every tick the lane-change timer is 0 when the resulting state
\* is off or preLaneChange, and one tick period more than before the tick
\* when the resulting state is laneChangeStarting or laneChangeFinishing.
C10_LaneChangeTimer ==
  [][ /\ self'.lane_change_state \in {"off", "preLaneChange"}
           => self'.lane_change_timer = 0
      /\ self'.lane_change_state \in {"laneChangeStarting", "laneChangeFinishing"}
           => self'.lane_change_timer = self.lane_change_timer + 1 ]_vars

\* C10 witness: preLaneChange re-entered from laneChangeFinishing is not
\* told apart by the state alone; the witness is a lane change whose timer
\* has counted both phases.
C10_Witness ==
  /\ self.lane_change_state = "laneChangeFinishing"
  /\ self.lane_change_timer > TicksPerSecond

\* C11: the desire held after each tick is determined by direction and
\* state alone: laneChangeLeft for direction left, laneChangeRight for
\* direction right, both only in laneChangeStarting or laneChangeFinishing,
\* and none in every other case; and in every reachable state the desire is
\* other than none exactly when the state is laneChangeStarting or
\* laneChangeFinishing.
C11_DesireOfDirectionAndState ==
  /\ self.desire = "laneChangeLeft"
       <=> ( /\ self.lane_change_direction = "left"
             /\ self.lane_change_state \in {"laneChangeStarting", "laneChangeFinishing"} )
  /\ self.desire = "laneChangeRight"
       <=> ( /\ self.lane_change_direction = "right"
             /\ self.lane_change_state \in {"laneChangeStarting", "laneChangeFinishing"} )
  /\ self.desire # "none"
       <=> self.lane_change_state \in {"laneChangeStarting", "laneChangeFinishing"}

\* C11 witness: the fade-in phase of a lane change to the right, with its
\* desire.
C11_Witness ==
  /\ self.lane_change_state = "laneChangeFinishing"
  /\ self.lane_change_direction = "right"
  /\ self.desire = "laneChangeRight"

\* the inputs of tick in with the solve replaced: cost c, curvature k
WithSolve(in, c, k) == [in EXCEPT !.cost = c, !.curvature = k]

\* C12: validity flag.  A tick whose solve is invalid (cost above 20000 or a
\* NaN curvature) adds one to solution_invalid_cnt and a tick whose solve is
\* valid sets it to 0, so the counter is the number of consecutive invalid
\* solves ending at the tick; every message publish sends carries
\* mpcSolutionValid false exactly when the counter is 2 or more; after a
\* valid tick, two non-finite solves in a row bring the counter to 2 (flag
\* false), and one non-finite solve followed by a valid one keeps it below 2
\* after both ticks (flag true at both publishes).
C12_ValidityFlag ==
  /\ [] ( \A t \in ClockReadings(now) : \A in \in MpcInputs(t) :
          \A r \in {Step(self, in)} :
            /\ r.solution_invalid_cnt =
                 IF in.cost > COST_LIMIT \/ in.curvature = NaN
                 THEN self.solution_invalid_cnt + 1
                 ELSE 0
            /\ ( self.solution_invalid_cnt = 0 /\ in.curvature = NaN )
                 => /\ r.solution_invalid_cnt < 2
                    /\ \A c \in {COST_LIMIT, COST_LIMIT + 5000} :
                         /\ Step(r, WithSolve(in, c, NaN)).solution_invalid_cnt >= 2
                         /\ Step(r, WithSolve(in, COST_LIMIT, 2)).solution_invalid_cnt < 2 )
  /\ [][ pm' # pm
         => pm'[1].mpcSolutionValid = ~(self.solution_invalid_cnt >= 2) ]_vars

\* C12 witness: a message sent after two or more invalid solves in a row,
\* with the flag false, and the counter still where publish read it.
C12_Witness ==
  /\ Len(pm) = 1
  /\ ~pm[1].mpcSolutionValid
  /\ self.solution_invalid_cnt >= 2
  /\ self.libmpc = "init"

Warnings(s, in) ==
  IF ( /\ ~( /\ ~( ~in.active \/ s.lane_change_timer > LANE_CHANGE_TIME_MAX * TicksPerSecond )
             /\ (in.leftBlinker \/ in.rightBlinker)
             /\ s.pre_lane_change_timer = NoAttr )
       /\ in.curvature = NaN
       /\ in.t > s.last_cloudlog_t + CLOUDLOG_PERIOD )
  THEN 1 ELSE 0

\* scenario E from planner object s: three ticks in a row with a finite
\* solution of cost 25000, at clock readings t1 <= t2 <= t3, the other inputs
\* as in; n is the number of warnings the claim expects over the three ticks
ScenarioE(s, in, t1, t2, t3, n) ==
  \A r1 \in {Step(s, [in EXCEPT !.t = t1])} :
  \A r2 \in {Step(r1, [in EXCEPT !.t = t2])} :
  \A r3 \in {Step(r2, [in EXCEPT !.t = t3])} :
    /\ r1.solution_invalid_cnt = 1
    /\ r2.solution_invalid_cnt = 2
    /\ r3.solution_invalid_cnt = 3
    /\ r1.solution_invalid_cnt < 2
    /\ ~(r2.solution_invalid_cnt < 2)
    /\ ~(r3.solution_invalid_cnt < 2)
    /\ Warnings(s, [in EXCEPT !.t = t1]) + Warnings(r1, [in EXCEPT !.t = t2])
         + Warnings(r2, [in EXCEPT !.t = t3]) = n

\* the runs of scenario E from the current state, which a valid tick has
\* left: every forecast, measurement and non-decreasing clock
ScenarioERuns(n) ==
  ( self.solution_invalid_cnt = 0 /\ self.libmpc = "run_mpc" )
  => \A t1 \in ClockReadings(now) :
       \A in \in { x \in MpcInputs(t1) : x.cost = 25000 /\ x.curvature # NaN } :
         \A t2 \in ClockReadings(t1) : \A t3 \in ClockReadings(t2) :
           ScenarioE(self, in, t1, t2, t3, n)

EmissionsApart ==
  \A i \in 1..Len(cloudlog) : \A j \in 1..Len(cloudlog) :
    i < j => cloudlog[j] > cloudlog[i] + 5

\* two failing ticks in a row from the current state, the second no more
\* than span seconds after the first, send at most one warning between them
BurstOfTwo(span) ==
  \A t1 \in ClockReadings(now) :
    \A in \in { x \in MpcInputs(t1) : x.cost > COST_LIMIT \/ x.curvature = NaN } :
      \A r1 \in {Step(self, in)} :
        \A t2 \in { t \in ClockReadings(t1) : t <= t1 + span } :
          \A k \in {2, NaN} :
            Warnings(self, in)
              + Warnings(r1, [in EXCEPT !.t = t2, !.cost = 25000, !.curvature = k]) <= 1

\* C15 as stated: diagnostic rate limit.  For any sequence of ticks and any
\* non-decreasing clock two warnings are always more than 5 s apart, and a
\* run of failing solves with no valid solve in between sends at most one
\* warning (here: any two failing ticks in a row).
C15_RateLimit ==
  /\ EmissionsApart
  /\ BurstOfTwo(MaxClock)

\* C15 amended: two warnings are always more than 5 s apart, a tick sends
\* one exactly when its solve has a NaN curvature and the clock reads more
\* than 5 s after last_cloudlog_t, and last_cloudlog_t is then the clock
\* reading and otherwise unchanged; so failing ticks in a row that lie
\* within 5 s of each other send at most one warning.
C15_RateLimitPerPeriod ==
  /\ EmissionsApart
  /\ BurstOfTwo(5)
  /\ \A t \in ClockReadings(now) : \A in \in MpcInputs(t) :
       \A r \in {Step(self, in)} :
         /\ Warnings(self, in) = 1
              <=> ( in.curvature = NaN /\ in.t > self.last_cloudlog_t + 5 )
         /\ r.last_cloudlog_t = IF Warnings(self, in) = 1 THEN in.t
                                ELSE self.last_cloudlog_t

\* C15 witness: two warnings have been sent.
C15_Witness ==
  /\ Len(cloudlog) = 2
  /\ self.last_cloudlog_t = cloudlog[2]
  /\ self.solution_invalid_cnt >= 1

\* C16: stale-forecast retention.  On a tick whose forecast has position
\* lists or orientation lists of a length other than TRAJECTORY_SIZE,
\* path_xyz, t_idxs and plan_yaw are what they were before the tick and
\* update returns without raising; and the three always come from the same
\* forecast (they are replaced together or not at all).
C16_StaleForecastRetention ==
  /\ self.path_xyz = self.t_idxs /\ self.t_idxs = self.plan_yaw
  /\ \A in \in Inputs :
       \A md \in { f \in Forecasts : f.position_len # TRAJECTORY_SIZE
                                      \/ f.orientation_len # TRAJECTORY_SIZE } :
         \A r \in {Step(self, [in EXCEPT !.md = md])} :
           /\ r.path_xyz = self.path_xyz
           /\ r.t_idxs = self.t_idxs
           /\ r.plan_yaw = self.plan_yaw
           /\ ~( /\ in.active
                 /\ self.lane_change_timer <= LANE_CHANGE_TIME_MAX * TicksPerSecond
                 /\ (in.leftBlinker \/ in.rightBlinker)
                 /\ self.pre_lane_change_timer = NoAttr )

\* C17: no fault.  From a freshly constructed planner no tick of update
\* raises, whatever the inputs; in particular not the first tick with the
\* controller active and a blinker on.
C17_NoFault ==
  ~raised

\* the changes of lane-change state a tick can make without a forced abort
LaneChangeEdges ==
  { << "off", "preLaneChange" >>,
    << "preLaneChange", "off" >>,
    << "preLaneChange", "laneChangeStarting" >>,
    << "laneChangeStarting", "laneChangeFinishing" >>,
    << "laneChangeFinishing", "preLaneChange" >>,
    << "laneChangeFinishing", "off" >> }

\* C18: transition relation.  A tick with the controller inactive or the
\* lane-change timer above 10 s ends in off; any other tick keeps the state
\* or changes it along one of the six edges (so never two edges in one
\* tick); and such a tick leaves laneChangeFinishing only with the blend
\* factor, as raised by the tick, above 0.99, for preLaneChange when exactly
\* one blinker is on and for off otherwise.
C18_TransitionRelation ==
  \A in \in Inputs : \A r \in {Step(self, in)} :
    IF ~in.active \/ self.lane_change_timer > LANE_CHANGE_TIME_MAX * TicksPerSecond
    THEN r.lane_change_state = "off"
    ELSE /\ r.lane_change_state # self.lane_change_state
              => << self.lane_change_state, r.lane_change_state >> \in LaneChangeEdges
         /\ ( self.lane_change_state = "laneChangeFinishing"
                /\ r.lane_change_state # "laneChangeFinishing" )
              => /\ 100 * r.lane_change_ll_prob > 99 * TicksPerSecond
                 /\ r.lane_change_state =
                      IF in.leftBlinker # in.rightBlinker THEN "preLaneChange" ELSE "off"

\* C18 witness: the last tick of the fade-in is next, with one blinker on:
\* the state from which laneChangeFinishing is left for preLaneChange.
C18_Witness ==
  /\ self.lane_change_state = "laneChangeFinishing"
  /\ self.lane_change_ll_prob = TicksPerSecond - 1
  /\ self.prev_one_blinker
  /\ self.lane_change_timer <= LANE_CHANGE_TIME_MAX * TicksPerSecond

\* C19: pre-change timer accumulation.  The pre-change timer increases on a
\* tick only if a blinker is on and the lane-change state is not off: it
\* does not increase on a tick that starts and ends in off.
C19_PreTimerOnlyOutsideOff ==
  \A in \in Inputs : \A r \in {Step(self, in)} :
    ( self.pre_lane_change_timer # NoAttr
      /\ r.pre_lane_change_timer > self.pre_lane_change_timer )
    => /\ in.leftBlinker \/ in.rightBlinker
       /\ ~( self.lane_change_state = "off" /\ r.lane_change_state = "off" )

\* C20: blend reset on entering preLaneChange.  Every tick that ends in
\* preLaneChange, from any state, leaves the blend factor at 1.0; a tick
\* that starts in laneChangeStarting lowers it by two periods, not below 0,
\* and a tick that starts in laneChangeFinishing raises it by one period,
\* not above 1.0, unless the tick is a forced abort, which ends in off with
\* the blend factor untouched; and a tick that enters laneChangeFinishing
\* leaves it below 0.01.
C20_BlendReset ==
  [][ /\ self'.lane_change_state = "preLaneChange"
           => self'.lane_change_ll_prob = TicksPerSecond
      /\ self.lane_change_state = "laneChangeStarting"
           => IF self'.lane_change_state = "off"
              THEN self'.lane_change_ll_prob = self.lane_change_ll_prob
              ELSE self'.lane_change_ll_prob =
                     IF self.lane_change_ll_prob >= 2
                     THEN self.lane_change_ll_prob - 2 ELSE 0
      /\ self.lane_change_state = "laneChangeFinishing"
           => \/ self'.lane_change_ll_prob =
                   IF self.lane_change_ll_prob + 1 <= TicksPerSecond
                   THEN self.lane_change_ll_prob + 1 ELSE TicksPerSecond
              \/ /\ self'.lane_change_state = "off"
                 /\ self'.lane_change_ll_prob = self.lane_change_ll_prob
      /\ ( self.lane_change_state # "laneChangeFinishing"
             /\ self'.lane_change_state = "laneChangeFinishing" )
           => 100 * self'.lane_change_ll_prob < TicksPerSecond ]_vars

\* C20 witness: preLaneChange kept over more than one tick with the right
\* blinker on, the blend factor at 1.0.
C20_Witness ==
  /\ self.lane_change_state = "preLaneChange"
  /\ self.lane_change_ll_prob = TicksPerSecond
  /\ self.lane_change_direction = "right"
  /\ self.prev_one_blinker
  /\ self.pre_lane_change_timer > 1

C22_MasterSwitch ==
  ~self.lane_change_enabled
    => /\ self.lane_change_state = "off"
       /\ self.desire = "none"
====
